---- MODULE Spec2Model ----
(***************************************************************************)
(* Model of the AI-MART recommendation scoring engine:                     *)
(*   src/src/algorithms/hybrid_approach.py   HybridApproach                *)
(*   src/src/agents/recommendation_agent.py  RecommendationAgent           *)
(*                                                                         *)
(* Python floats are modelled as exact rationals <<numerator, denominator>>*)
(* in lowest terms with a positive denominator.  A description string is   *)
(* modelled by the sequence of tokens str.split() yields for it; a NULL    *)
(* description (Product.description is a nullable Text column) is None.    *)
(* A product dict is identified by its position in product_list: the       *)
(* "product" entry of a recommendation is a reference to that dict.        *)
(***************************************************************************)
EXTENDS Integers, Sequences, FiniteSets, TLC

VARIABLES customer_profile, cart_products, product_list, limit,
          categories, recommendations, raised, response, pc,
          confidences, algorithm_weights, explained, updates,
          calls, db_carts, avg_price, cart_table, requests

vars == <<customer_profile, cart_products, product_list, limit,
          categories, recommendations, raised, response, pc,
          confidences, algorithm_weights, explained, updates,
          calls, db_carts, avg_price, cart_table, requests>>

(***************************************************************************)
(* Bounds of the model.                                                    *)
(***************************************************************************)
MaxCatalog == 3
MaxCart == 2
MaxLimit == 2
MaxWords == 2
MaxUpdates == 2
MaxPrice == 4
MaxQuantity == 2
MaxRequests == 3

(***************************************************************************)
(* Exact rational arithmetic standing for Python float arithmetic.         *)
(***************************************************************************)
Abs(x) == IF x < 0 THEN 0 - x ELSE x

RECURSIVE Gcd(_, _)
Gcd(a, b) == IF b = 0 THEN a ELSE Gcd(b, a % b)

Rat(n, d) ==
    LET s == IF d < 0 THEN 0 - 1 ELSE 1
        g == Gcd(Abs(n), Abs(d))
    IN  <<(s * n) \div g, (s * d) \div g>>

Zero == <<0, 1>>
One == <<1, 1>>
RatAdd(a, b) == Rat(a[1] * b[2] + b[1] * a[2], a[2] * b[2])
RatSub(a, b) == Rat(a[1] * b[2] - b[1] * a[2], a[2] * b[2])
RatMul(a, b) == Rat(a[1] * b[1], a[2] * b[2])
RatDiv(a, b) == Rat(a[1] * b[2], a[2] * b[1])
RatAbs(a) == <<Abs(a[1]), a[2]>>
RatLess(a, b) == a[1] * b[2] < b[1] * a[2]
RatLeq(a, b) == a[1] * b[2] <= b[1] * a[2]
RatMax(a, b) == IF RatLess(a, b) THEN b ELSE a

(***************************************************************************)
(* Inputs.                                                                 *)
(***************************************************************************)
None == [none |-> TRUE]
Str(words) == [none |-> FALSE, words |-> words]

ProductDict(id, category, price, description) ==
    [id |-> id, category |-> category, price |-> price,
     description |-> description]

\* the catalog rows the model draws product_list from
Products ==
    { ProductDict(1, "Electronics", 2, Str(<<"fast", "laptop">>)),
      ProductDict(2, "Electronics", 3, Str(<<"Fast", "laptop", "charger">>)),
      ProductDict(3, "Fashion", 4, Str(<<"red", "shoes">>)),
      ProductDict(4, "Fashion", 0, Str(<<>>)),
      ProductDict(5, "Fashion", 0 - 2, Str(<<"red">>)),
      ProductDict(6, "Electronics", 2, None) }

\* the rows the model draws cart lines from
CartLines == {p \in Products : p.id \in {1, 4}}

\* the preference keys a customer profile may or may not carry
ProfileKeys == {"favorite_categories"}

SeqsUpTo(S, n) == UNION {[1..k -> S] : k \in 0..n}

Limits == (0 - 1)..MaxLimit

(***************************************************************************)
(* Python list helpers.                                                    *)
(***************************************************************************)
Min(a, b) == IF a < b THEN a ELSE b
Max(a, b) == IF a < b THEN b ELSE a

\* seq[:lim], for every integer lim (a negative lim counts from the end)
Slice(seq, lim) ==
    LET stop == IF lim < 0 THEN Max(Len(seq) + lim, 0) ELSE Min(lim, Len(seq))
    IN  SubSeq(seq, 1, stop)

\* a variant of the insertion below that puts an element before its equals
RECURSIVE InsertDesc_unstable(_, _, _)
InsertDesc_unstable(sorted, rec, j) ==
    IF j > Len(sorted) THEN Append(sorted, rec)
    ELSE IF RatLeq(sorted[j].confidence_score, rec.confidence_score)
         THEN SubSeq(sorted, 1, j - 1) \o <<rec>> \o SubSeq(sorted, j, Len(sorted))
         ELSE InsertDesc_unstable(sorted, rec, j + 1)

\* list.sort(key = confidence_score, reverse = True): a stable sort, so an
\* element is placed after every earlier element whose key is not smaller
RECURSIVE InsertDesc(_, _, _)
InsertDesc(sorted, rec, j) ==
    IF j > Len(sorted) THEN Append(sorted, rec)
    ELSE IF RatLess(sorted[j].confidence_score, rec.confidence_score)
         THEN SubSeq(sorted, 1, j - 1) \o <<rec>> \o SubSeq(sorted, j, Len(sorted))
         ELSE InsertDesc(sorted, rec, j + 1)

RECURSIVE SortDesc(_)
SortDesc(recs) ==
    IF recs = <<>> THEN <<>>
    ELSE InsertDesc(SortDesc(SubSeq(recs, 1, Len(recs) - 1)), recs[Len(recs)], 1)

RECURSIVE SumPrices(_), SumWeighted(_), SumQuantities(_)
SumPrices(cart) ==
    IF cart = <<>> THEN 0 ELSE cart[1].price + SumPrices(Tail(cart))

\* str.lower() on one token
Lower(w) == IF w = "Fast" THEN "fast" ELSE w

\* set(description.lower().split())
LowerWords(description) ==
    {Lower(description.words[i]) : i \in DOMAIN description.words}

ListsOfSet(S) ==
    {f \in [1..Cardinality(S) -> S] : \A a \in S : \E i \in DOMAIN f : f[i] = a}

IndexOf(seq, x) == CHOOSE i \in DOMAIN seq : seq[i] = x /\ \A j \in 1..(i - 1) : seq[j] # x

(***************************************************************************)
(* HybridApproach.generate_recommendations                                 *)
(***************************************************************************)
cart_categories(cart) == {cart[i].category : i \in DOMAIN cart}

cart_product_ids(cart) == {cart[i].id : i \in DOMAIN cart}

\* a variant that forgets to filter the cart's products out
available_products_unfiltered(cart, plist) == [k \in DOMAIN plist |-> k]

\* the positions in plist of the products that are not in the cart
available_products(cart, plist) ==
    SelectSeq([k \in DOMAIN plist |-> k],
              LAMBDA k : plist[k].id \notin cart_product_ids(cart))

\* sum of price * quantity, and of quantity, over the cart lines
SumWeighted(cart) ==
    IF cart = <<>> THEN 0
    ELSE cart[1].price * cart[1].quantity + SumWeighted(Tail(cart))

SumQuantities(cart) ==
    IF cart = <<>> THEN 0 ELSE cart[1].quantity + SumQuantities(Tail(cart))

\* a variant that weights every line's price by its quantity
avg_cart_price_by_quantity(cart) == Rat(SumWeighted(cart), SumQuantities(cart))

\* line 37: sum(float(item["price"]) ...) / len(cart_products)
avg_cart_price(cart) == Rat(SumPrices(cart), Len(cart))

category_weight == Rat(4, 10)

\* a variant whose weights sum to 1.1
price_weight_heavy == Rat(4, 10)

price_weight == Rat(3, 10)
\* a variant that gives the description overlap no weight
description_weight_none == Zero

description_weight == Rat(3, 10)

\* a variant that never sees a category match
category_confidence_ignored(product, cart) == Zero

\* lines 43-44
category_confidence(product, cart) ==
    IF product.category \in cart_categories(cart) THEN One ELSE Zero

price_diff(product, avg) == RatAbs(RatSub(Rat(product.price, 1), avg))

\* ZeroDivisionError in line 48: price_diff/avg or 1.0/(1.0 + ...)
PriceRaises(product, avg) ==
    \/ avg = Zero
    \/ RatAdd(One, RatDiv(price_diff(product, avg), avg)) = Zero

\* a variant that normalises the difference by 100 instead of the average
price_confidence_fixed_scale(product, avg) ==
    RatDiv(One, RatAdd(One, RatDiv(price_diff(product, avg), Rat(100, 1))))

price_confidence(product, avg) ==
    RatDiv(One, RatAdd(One, RatDiv(price_diff(product, avg), avg)))

\* a variant for a loop that divides before it looks at common_words:
\* ZeroDivisionError when both descriptions are empty
DescRaises_unguarded(product, cart) ==
    /\ cart # <<>>
    /\ \/ product.description = None
       \/ \E i \in DOMAIN cart : cart[i].description = None
       \/ \E i \in DOMAIN cart :
              Max(Len(product.description.words), Len(cart[i].description.words)) = 0

\* AttributeError in line 54: None has no .lower()
DescRaises(product, cart) ==
    /\ cart # <<>>
    /\ \/ product.description = None
       \/ \E i \in DOMAIN cart : cart[i].description = None

RECURSIVE DescLoop(_, _, _, _)
DescLoop(product, cart, i, acc) ==
    IF i > Len(cart) THEN acc
    ELSE LET common_words == LowerWords(product.description)
                                 \cap LowerWords(cart[i].description)
             ratio == Rat(Cardinality(common_words),
                          Max(Len(product.description.words),
                              Len(cart[i].description.words)))
         IN  DescLoop(product, cart, i + 1,
                      IF common_words # {} THEN RatMax(acc, ratio) ELSE acc)

desc_confidence(product, cart) == DescLoop(product, cart, 1, Zero)

\* f"{value:.2f}" of a rational: sign, integer part, two digits, rounded
\* to the nearest hundredth (a tie to the even one)
Format2f(r) ==
    LET n == 100 * Abs(r[1])
        q == n \div r[2]
        rem == n % r[2]
        hundredths == IF 2 * rem > r[2] \/ (2 * rem = r[2] /\ q % 2 = 1)
                      THEN q + 1 ELSE q
        frac == hundredths % 100
    IN  (IF r[1] < 0 THEN "-" ELSE "") \o ToString(hundredths \div 100) \o "."
        \o (IF frac < 10 THEN "0" ELSE "") \o ToString(frac)

\* ", ".join(clauses); a clause is the sequence of its parts
RECURSIVE JoinComma(_)
JoinComma(clauses) ==
    IF clauses = <<>> THEN <<>>
    ELSE IF Len(clauses) = 1 THEN clauses[1]
    ELSE clauses[1] \o <<", ">> \o JoinComma(Tail(clauses))

\* line 244
CategoryClause(product) ==
    <<"matches your preferred category (", product.category, ")">>

\* a variant that prints the candidate's own price
SimilarPriceClause_of_candidate(product, avg) ==
    <<"is in a similar price range ($", Format2f(Rat(product.price, 1)), ")">>

\* line 247
SimilarPriceClause(product, avg) ==
    <<"is in a similar price range ($", Format2f(avg), ")">>

\* a variant whose lower price threshold is inclusive
_generate_confidence_explanation_inclusive(category_c, price_c, desc_c, product, avg) ==
    LET e1 == IF RatLess(Zero, category_c)
              THEN <<CategoryClause(product)>>
              ELSE <<>>
        e2 == IF RatLess(Rat(7, 10), price_c)
              THEN <<SimilarPriceClause(product, avg)>>
              ELSE IF RatLeq(Rat(4, 10), price_c)
                   THEN <<(<<"is within an acceptable price range">>)>>
                   ELSE <<>>
        e3 == IF RatLess(Rat(3, 10), desc_c)
              THEN <<(<<"has similar features to items in your cart">>)>>
              ELSE <<>>
        explanations == e1 \o e2 \o e3
    IN  IF explanations = <<>>
        THEN <<"Recommended based on general popularity">>
        ELSE <<"This product ">> \o JoinComma(explanations)

\* lines 232-257; the text is the sequence of its parts, in order
_generate_confidence_explanation(category_c, price_c, desc_c, product, avg) ==
    LET e1 == IF RatLess(Zero, category_c)
              THEN <<CategoryClause(product)>>
              ELSE <<>>
        e2 == IF RatLess(Rat(7, 10), price_c)
              THEN <<SimilarPriceClause(product, avg)>>
              ELSE IF RatLess(Rat(4, 10), price_c)
                   THEN <<(<<"is within an acceptable price range">>)>>
                   ELSE <<>>
        e3 == IF RatLess(Rat(3, 10), desc_c)
              THEN <<(<<"has similar features to items in your cart">>)>>
              ELSE <<>>
        explanations == e1 \o e2 \o e3
    IN  IF explanations = <<>>
        THEN <<"Recommended based on general popularity">>
        ELSE <<"This product ">> \o JoinComma(explanations)

\* lines 39-75: one candidate of the non-empty-cart branch
CartRecommendation(plist, k, cart) ==
    LET product == plist[k]
        avg == avg_cart_price(cart)
        category_c == category_confidence(product, cart)
        price_c == price_confidence(product, avg)
        desc_c == desc_confidence(product, cart)
        confidence_score ==
            RatAdd(RatAdd(RatMul(category_c, category_weight),
                          RatMul(price_c, price_weight)),
                   RatMul(desc_c, description_weight))
    IN  [product_id |-> product.id,
         product |-> k,
         score |-> confidence_score,
         confidence_score |-> confidence_score,
         source |-> "hybrid",
         explanation |-> _generate_confidence_explanation(
                             category_c, price_c, desc_c, product, avg)]

\* a variant with the two weights of line 91 exchanged
PopularRecommendation_swapped(plist, avail, idx, cats) ==
    LET product == plist[avail[idx + 1]]
        category_position == IndexOf(cats, product.category) - 1
        diversity_confidence == RatSub(One, Rat(category_position, Len(cats)))
        position_confidence == RatSub(One, Rat(idx, Len(avail)))
        confidence_score ==
            RatAdd(RatMul(diversity_confidence, Rat(4, 10)),
                   RatMul(position_confidence, Rat(6, 10)))
    IN  [product_id |-> product.id,
         product |-> avail[idx + 1],
         score |-> confidence_score,
         confidence_score |-> confidence_score,
         source |-> "hybrid",
         explanation |-> <<"Popular product in the ", product.category,
                           " category">>]

\* lines 79-97: one candidate of the empty-cart branch; cats is the list
\* built from the set of categories, idx the 0-based position in avail
PopularRecommendation(plist, avail, idx, cats) ==
    LET product == plist[avail[idx + 1]]
        category_position == IndexOf(cats, product.category) - 1
        diversity_confidence == RatSub(One, Rat(category_position, Len(cats)))
        position_confidence == RatSub(One, Rat(idx, Len(avail)))
        confidence_score ==
            RatAdd(RatMul(diversity_confidence, Rat(6, 10)),
                   RatMul(position_confidence, Rat(4, 10)))
    IN  [product_id |-> product.id,
         product |-> avail[idx + 1],
         score |-> confidence_score,
         confidence_score |-> confidence_score,
         source |-> "hybrid",
         explanation |-> <<"Popular product in the ", product.category,
                           " category">>]

\* line 37: the local avg_cart_price, assigned when the call reaches the
\* non-empty-cart branch
CartAverage(cart, plist) ==
    IF cart # <<>> /\ available_products(cart, plist) # <<>>
    THEN avg_cart_price(cart)
    ELSE None

\* lines 43-57: the three confidences the loop computes for every candidate
\* it scores, by catalog position; none when the loop does not run through
CartConfidences(cart, plist) ==
    LET avail == available_products(cart, plist)
        scored == IF cart = <<>>
                     \/ \E i \in DOMAIN avail :
                            \/ PriceRaises(plist[avail[i]], avg_cart_price(cart))
                            \/ DescRaises(plist[avail[i]], cart)
                  THEN {}
                  ELSE {avail[i] : i \in DOMAIN avail}
    IN  [k \in scored |->
            [category |-> category_confidence(plist[k], cart),
             price |-> price_confidence(plist[k], avg_cart_price(cart)),
             description |-> desc_confidence(plist[k], cart)]]

\* the orders list(set(...)) of line 78 can produce: the iteration order of
\* a set of strings is not fixed by the language
CategoryLists(cart, plist) ==
    LET avail == available_products(cart, plist)
    IN  IF cart = <<>> /\ avail # <<>>
        THEN ListsOfSet({plist[avail[i]].category : i \in DOMAIN avail})
        ELSE {<<>>}

\* a variant whose except clause sits inside the loop: a candidate that
\* fails is skipped and the others are returned
CartBranch_skips_failed(cart, plist, avail, lim) ==
    LET scorable == SelectSeq(avail,
                       LAMBDA k : /\ ~PriceRaises(plist[k], avg_cart_price(cart))
                                  /\ ~DescRaises(plist[k], cart))
    IN  [raised |-> Len(scorable) < Len(avail),
         value |-> Slice(SortDesc([i \in DOMAIN scorable |->
                       CartRecommendation(plist, scorable[i], cart)]), lim)]

\* lines 35-75, then 99-101: the cart has items
CartBranch(cart, plist, avail, lim) ==
    IF \E i \in DOMAIN avail :
           \/ PriceRaises(plist[avail[i]], avg_cart_price(cart))
           \/ DescRaises(plist[avail[i]], cart)
    THEN [raised |-> TRUE, value |-> <<>>]
    ELSE [raised |-> FALSE,
          value |-> Slice(SortDesc([i \in DOMAIN avail |->
                        CartRecommendation(plist, avail[i], cart)]), lim)]

\* lines 76-97, then 99-101: the cart is empty
EmptyCartBranch(plist, avail, lim, cats) ==
    [raised |-> FALSE,
     value |-> Slice(SortDesc([i \in DOMAIN avail |->
                   PopularRecommendation(plist, avail, i - 1, cats)]), lim)]

\* a variant that looks the preference keys up in the profile (KeyError on
\* a profile without them)
generate_recommendations_requires_keys(profile, cart, plist, lim, cats) ==
    LET avail == available_products(cart, plist)
    IN  IF ~(ProfileKeys \subseteq profile) THEN [raised |-> TRUE, value |-> <<>>]
        ELSE IF avail = <<>> THEN [raised |-> FALSE, value |-> <<>>]
        ELSE IF cart # <<>> THEN CartBranch(cart, plist, avail, lim)
        ELSE EmptyCartBranch(plist, avail, lim, cats)

\* the whole call: [raised |-> the except branch of line 103 ran,
\*                  value  |-> the list returned]
\* customer_profile is a parameter the body never reads
generate_recommendations(profile, cart, plist, lim, cats) ==
    LET avail == available_products(cart, plist)
    IN  IF avail = <<>> THEN [raised |-> FALSE, value |-> <<>>]
        ELSE IF cart # <<>> THEN CartBranch(cart, plist, avail, lim)
        ELSE EmptyCartBranch(plist, avail, lim, cats)

(***************************************************************************)
(* RecommendationAgent._generate_recommendations, algorithm "hybrid"       *)
(***************************************************************************)
\* lines 145-148: every recommendation is tagged with the algorithm
TagRecommendations(recs, algorithm) ==
    [i \in DOMAIN recs |->
        [product_id |-> recs[i].product_id,
         product |-> recs[i].product,
         score |-> recs[i].score,
         confidence_score |-> recs[i].confidence_score,
         source |-> recs[i].source,
         explanation |-> recs[i].explanation,
         algorithm |-> algorithm]]

\* lines 157-159: the response of the except branch
ErrorResponse(message) == [error |-> message]

\* a variant that reports an empty list as an error
AgentResponse_error_on_empty(recs, algorithm, cart) ==
    IF recs = <<>> THEN ErrorResponse("No recommendations")
    ELSE [status |-> "success",
          recommendations |-> recs,
          algorithm |-> algorithm,
          based_on_cart |-> Len(cart) > 0]

\* lines 150-155
AgentResponse(recs, algorithm, cart) ==
    [status |-> "success",
     recommendations |-> recs,
     algorithm |-> algorithm,
     based_on_cart |-> Len(cart) > 0]

NoResponse == [status |-> "none"]

\* a variant whose loop writes the tag through rec["product"], the reference
\* to the catalog entry
TaggedCatalog_through_reference(plist, recs, algorithm) ==
    [k \in DOMAIN plist |->
        IF \E i \in DOMAIN recs : recs[i].product = k
        THEN plist[k] @@ [algorithm |-> algorithm]
        ELSE plist[k]]

\* lines 145-148: the loop assigns rec["algorithm"] (and rec["confidence_score"]
\* when absent) on the recommendation dicts only; the catalog entries that
\* rec["product"] refers to are not written
TaggedCatalog(plist, recs, algorithm) == plist

(***************************************************************************)
(* The explanation path: RecommendationAgent._explain_recommendations and  *)
(* HybridApproach.explain_recommendation with its three sub-models.        *)
(***************************************************************************)
\* CollaborativeFiltering.explain_recommendation: a fixed placeholder
collaborative_explain_recommendation(profile, product) ==
    [explanation |-> "Similar customers who liked this product also liked...",
     confidence |-> Rat(8, 10)]

\* ContentBasedFiltering.explain_recommendation: a fixed placeholder
content_based_explain_recommendation(profile, product) ==
    [explanation |-> "This product matches your preferences in the following ways...",
     confidence |-> Rat(8, 10)]

\* SequentialPatternMining.explain_recommendation: a fixed placeholder
sequential_explain_recommendation(profile, product) ==
    [explanation |-> "Based on your browsing history, customers who viewed similar products often purchase this item next.",
     confidence |-> Rat(8, 10)]

\* hybrid_approach.py lines 207-225; the text is the sequence of its parts
_combine_explanations(collaborative_exp, content_exp, sequential_exp) ==
    [explanation |-> <<"This product was recommended because:\n",
                       "1. ", collaborative_exp.explanation, "\n",
                       "2. ", content_exp.explanation, "\n",
                       "3. ", sequential_exp.explanation>>,
     confidence |-> RatDiv(RatAdd(RatAdd(collaborative_exp.confidence,
                                         content_exp.confidence),
                                  sequential_exp.confidence),
                           Rat(3, 1))]

\* hybrid_approach.py lines 122-153
explain_recommendation(profile, product) ==
    _combine_explanations(collaborative_explain_recommendation(profile, product),
                          content_based_explain_recommendation(profile, product),
                          sequential_explain_recommendation(profile, product))

\* recommendation_agent.py lines 195-212: the row with this id, or None
_get_product_details(plist, product_id) ==
    IF \E k \in DOMAIN plist : plist[k].id = product_id
    THEN plist[CHOOSE k \in DOMAIN plist : plist[k].id = product_id]
    ELSE None

\* recommendation_agent.py lines 161-184; the customer profile is the default
\* profile of lines 186-193 and never missing
_explain_recommendations(profile, plist, product_id) ==
    LET product_details == _get_product_details(plist, product_id)
    IN  IF product_details = None
        THEN ErrorResponse("Customer or product not found")
        ELSE [status |-> "success",
              explanation |-> explain_recommendation(profile, product_details)]

(***************************************************************************)
(* The feedback path: RecommendationAgent.learn, HybridApproach.update_model*)
(***************************************************************************)
\* a variant that rewards the collaborative strategy for a click
_update_algorithm_weights_reward(weights, feedback) ==
    [weights EXCEPT !.collaborative = RatAdd(@, Rat(1, 10))]

\* hybrid_approach.py lines 202-205: pass
_update_algorithm_weights(weights, feedback) == weights

\* hybrid_approach.py lines 107-120: the three sub-models' update_model are
\* placeholders that keep no state; then the weights hook
update_model(weights, feedback) == _update_algorithm_weights(weights, feedback)

\* recommendation_agent.py lines 213-225
_update_models(weights, feedback) == update_model(weights, feedback)

\* recommendation_agent.py lines 55-72: nothing without a customer_id; the
\* logging call of line 66 (a method DatabaseManager does not have) ends in
\* handle_error after the models were updated
learn(weights, feedback) ==
    IF "customer_id" \notin DOMAIN feedback THEN weights
    ELSE _update_models(weights, feedback)

Feedbacks ==
    {[customer_id |-> 1, recommendation_id |-> 1, clicked |-> TRUE],
     [customer_id |-> 1, recommendation_id |-> 1, clicked |-> FALSE],
     [recommendation_id |-> 1, clicked |-> TRUE]}

(***************************************************************************)
(* The state of the HybridApproach instance, and what no call has made yet *)
(***************************************************************************)
\* HybridApproach.__init__, lines 14-18
InitialWeights ==
    [collaborative |-> Rat(4, 10),
     content_based |-> Rat(3, 10),
     sequential |-> Rat(3, 10)]

NoExplanation == [status |-> "none"]

\* nothing scored, explained or learnt yet
Fresh ==
    /\ categories = <<>>
    /\ recommendations = <<>>
    /\ raised = FALSE
    /\ response = NoResponse
    /\ confidences = <<>>
    /\ algorithm_weights = InitialWeights
    /\ explained = NoExplanation
    /\ updates = 0
    /\ avg_price = None

(***************************************************************************)
(* The state machine: one scoring request.                                 *)
(***************************************************************************)
\* no concurrent requests in flight
NoCalls == <<>>

Init ==
    /\ customer_profile \in SUBSET ProfileKeys
    /\ cart_products \in SeqsUpTo(CartLines, MaxCart)
    /\ product_list \in SeqsUpTo(Products, MaxCatalog)
    /\ limit \in Limits
    /\ Fresh
    /\ pc = "call"
    /\ calls = NoCalls
    /\ db_carts = NoCalls
    /\ cart_table = {}
    /\ requests = <<>>

\* HybridApproach.generate_recommendations(customer_profile, cart_products,
\*                                         product_list, limit)
GenerateRecommendations ==
    /\ pc = "call"
    /\ \E cats \in CategoryLists(cart_products, product_list) :
          LET r == generate_recommendations(customer_profile, cart_products,
                                            product_list, limit, cats)
          IN  /\ categories' = cats
              /\ recommendations' = r.value
              /\ raised' = r.raised
    /\ confidences' = CartConfidences(cart_products, product_list)
    /\ avg_price' = CartAverage(cart_products, product_list)
    /\ pc' = "returned"
    /\ UNCHANGED <<customer_profile, cart_products, product_list, limit, response,
                   algorithm_weights, explained, updates, calls, db_carts,
                   cart_table, requests>>

\* RecommendationAgent._generate_recommendations, after the call returned
Respond ==
    /\ pc = "returned"
    /\ recommendations' = TagRecommendations(recommendations, "hybrid")
    /\ response' = AgentResponse(recommendations', "hybrid", cart_products)
    /\ product_list' = TaggedCatalog(product_list, recommendations, "hybrid")
    /\ pc' = "responded"
    /\ UNCHANGED <<customer_profile, cart_products, limit,
                   categories, raised, confidences, algorithm_weights,
                   explained, updates, calls, db_carts,
                   avg_price, cart_table, requests>>

Next == GenerateRecommendations \/ Respond

Spec == Init /\ [][Next]_vars

(***************************************************************************)
(* The scorers on their own: one request whose cart and candidates range   *)
(* over descriptions (InitDescriptions) or over prices (InitPrices).       *)
(***************************************************************************)
\* limit: int = 10
DefaultLimit == 10

Tokens == {"fast", "Fast", "laptop"}

Descriptions == {Str(ws) : ws \in SeqsUpTo(Tokens, MaxWords)}

Categories == {"Electronics", "Fashion"}

\* one candidate and one or two cart lines, each with any description
InitDescriptions ==
    /\ \E c \in Categories, d \in Descriptions :
           product_list = <<ProductDict(2, c, 2, d)>>
    /\ \E n \in 1..2 :
           cart_products \in
               [1..n -> {ProductDict(1, "Electronics", 2, d) : d \in Descriptions}]

\* two candidates and one or two cart lines, each with any price
InitPrices ==
    /\ \E c2, c3 \in Categories, p2, p3 \in (0 - 1)..MaxPrice :
           product_list = <<ProductDict(2, c2, p2, Str(<<"fast">>)),
                            ProductDict(3, c3, p3, Str(<<"red">>))>>
    /\ \E n \in 1..2 :
           cart_products \in
               [1..n -> {ProductDict(1, "Electronics", p, Str(<<"fast", "laptop">>)) :
                            p \in 0..MaxPrice}]

InitScoring ==
    /\ customer_profile = {}
    /\ limit = DefaultLimit
    /\ InitDescriptions \/ InitPrices
    /\ Fresh
    /\ pc = "call"
    /\ calls = NoCalls
    /\ db_carts = NoCalls
    /\ cart_table = {}
    /\ requests = <<>>

SpecScoring == InitScoring /\ [][Next]_vars

(***************************************************************************)
(* The worked scenarios of the specification.                              *)
(***************************************************************************)
\* recommendation_agent.py lines 88-95: a cart line is the product's columns
\* and the quantity of the cart row
CartProduct(product, quantity) == product @@ [quantity |-> quantity]

LinePrices == {100, 300}

\* scenario A: the cart line and the catalog
ScenarioACart ==
    <<CartProduct(ProductDict(1, "Electronics", 100, Str(<<"fast", "laptop">>)), 1)>>

ScenarioACatalog ==
    <<ProductDict(2, "Electronics", 110, Str(<<"fast", "laptop", "charger">>)),
      ProductDict(3, "Fashion", 500, Str(<<"red", "shoes">>))>>

\* scenario B: three categories with two items each
ScenarioBProducts ==
    { ProductDict(1, "Electronics", 2, Str(<<"fast", "laptop">>)),
      ProductDict(2, "Electronics", 3, Str(<<"Fast", "laptop", "charger">>)),
      ProductDict(3, "Fashion", 4, Str(<<"red", "shoes">>)),
      ProductDict(4, "Fashion", 2, Str(<<"red">>)),
      ProductDict(5, "Home", 3, Str(<<"lamp">>)),
      ProductDict(6, "Home", 4, Str(<<"red", "lamp">>)) }

\* scenario B: an empty cart and the six items in any catalog order
InitScenarioB ==
    /\ cart_products = <<>>
    /\ product_list \in ListsOfSet(ScenarioBProducts)
    /\ limit = 2

\* carts of one or two lines priced 100 or 300, in any quantities (scenario C);
\* the line priced 100 with quantity 1 is the cart of scenario A
InitQuantities ==
    /\ limit = DefaultLimit
    /\ product_list = ScenarioACatalog
    /\ \E n \in 1..2 :
           cart_products \in
               [1..n -> {CartProduct(ProductDict(1, "Electronics", p,
                                                 Str(<<"fast", "laptop">>)), q) :
                            p \in LinePrices, q \in 1..MaxQuantity}]

InitScenarios ==
    /\ customer_profile = {}
    /\ InitQuantities \/ InitScenarioB
    /\ Fresh
    /\ pc = "call"
    /\ calls = NoCalls
    /\ db_carts = NoCalls
    /\ cart_table = {}
    /\ requests = <<>>

SpecScenarios == InitScenarios /\ [][Next]_vars

(***************************************************************************)
(* The agent serving one customer: a scoring request, explanation requests *)
(* and feedback, over the product table of the database.                   *)
(***************************************************************************)
\* the product table with the rows of ids 1..n, in id order
ProductTable(n) == [i \in 1..n |-> CHOOSE p \in Products : p.id = i]

ProductIds == {p.id : p \in Products}

\* the cart rows join the product table: every cart line is a catalog row
CartsOver(plist) == SeqsUpTo({plist[k] : k \in DOMAIN plist}, MaxCart)

InitAgent ==
    /\ customer_profile = {}
    /\ \E n \in 0..MaxCatalog : product_list = ProductTable(n)
    /\ cart_products \in CartsOver(product_list)
    /\ limit \in Limits
    /\ Fresh
    /\ pc = "call"
    /\ calls = NoCalls
    /\ db_carts = NoCalls
    /\ cart_table = {}
    /\ requests = <<>>

\* process(action_type "get_explanation") -> _explain_recommendations
Explain ==
    /\ \E product_id \in ProductIds :
           explained' = [product_id |-> product_id,
                         result |-> _explain_recommendations(
                                        customer_profile, product_list, product_id)]
    /\ UNCHANGED <<customer_profile, cart_products, product_list, limit,
                   categories, recommendations, raised, response, pc,
                   confidences, algorithm_weights, updates, calls, db_carts,
                   avg_price, cart_table, requests>>

\* RecommendationAgent.learn(feedback)
Learn ==
    /\ updates < MaxUpdates
    /\ \E feedback \in Feedbacks :
           algorithm_weights' = learn(algorithm_weights, feedback)
    /\ updates' = updates + 1
    /\ UNCHANGED <<customer_profile, cart_products, product_list, limit,
                   categories, recommendations, raised, response, pc,
                   confidences, explained, calls, db_carts,
                   avg_price, cart_table, requests>>

NextAgent == GenerateRecommendations \/ Respond \/ Explain \/ Learn

SpecAgent == InitAgent /\ [][NextAgent]_vars

(***************************************************************************)
(* Two customers' scoring requests interleaved on the one agent and its    *)
(* one HybridApproach instance.  A coroutine gives way at its awaits only: *)
(* after the cart query and after the catalog query.                       *)
(***************************************************************************)
Customers == {1, 2}

\* the locals of one _generate_recommendations coroutine
NewCall ==
    [pc |-> "call", cart_products |-> <<>>, product_list |-> <<>>,
     categories |-> <<>>, response |-> NoResponse, overlapped |-> FALSE]

InitConcurrent ==
    /\ customer_profile = {}
    /\ cart_products = <<>>
    /\ \E n \in 0..MaxCatalog : product_list = ProductTable(n)
    /\ limit = DefaultLimit
    /\ Fresh
    /\ pc = "call"
    /\ calls = [c \in Customers |-> NewCall]
    /\ db_carts \in [Customers -> CartsOver(product_list)]
    /\ cart_table = {}
    /\ requests = <<>>

\* a variant that keeps the cart in one attribute of the agent
GetCart_on_instance(cs, c, carts) ==
    [d \in DOMAIN cs |->
        [cs[d] EXCEPT !.cart_products = carts[c],
                      !.pc = IF d = c THEN "cart" ELSE @]]

\* lines 83-95: the cart query, into the local cart_products
GetCart(cs, c, carts) ==
    [cs EXCEPT ![c].cart_products = carts[c], ![c].pc = "cart"]

\* lines 78-95, up to the await of the cart query
FetchCart(c) ==
    /\ calls[c].pc = "call"
    /\ calls' = GetCart(calls, c, db_carts)
    /\ UNCHANGED <<customer_profile, cart_products, product_list, limit,
                   categories, recommendations, raised, response, pc,
                   confidences, algorithm_weights, explained, updates, db_carts,
                   avg_price, cart_table, requests>>

\* lines 98-110: the catalog query, into the local product_list
FetchCatalog(c) ==
    /\ calls[c].pc = "cart"
    /\ calls' = [calls EXCEPT ![c].product_list = product_list,
                              ![c].pc = "catalog"]
    /\ UNCHANGED <<customer_profile, cart_products, product_list, limit,
                   categories, recommendations, raised, response, pc,
                   confidences, algorithm_weights, explained, updates, db_carts,
                   avg_price, cart_table, requests>>

\* lines 112-155: scoring, tagging and the response, without an await
ScoreAndRespond(c) ==
    /\ calls[c].pc = "catalog"
    /\ \E cats \in CategoryLists(calls[c].cart_products, calls[c].product_list) :
          LET r == generate_recommendations(customer_profile,
                                            calls[c].cart_products,
                                            calls[c].product_list, limit, cats)
              recs == TagRecommendations(r.value, "hybrid")
          IN  calls' = [calls EXCEPT
                  ![c].categories = cats,
                  ![c].response = AgentResponse(recs, "hybrid",
                                                calls[c].cart_products),
                  ![c].overlapped = \E d \in Customers \ {c} :
                                        calls[d].pc \in {"cart", "catalog"},
                  ![c].pc = "responded"]
    /\ UNCHANGED <<customer_profile, cart_products, product_list, limit,
                   categories, recommendations, raised, response, pc,
                   confidences, algorithm_weights, explained, updates, db_carts,
                   avg_price, cart_table, requests>>

NextConcurrent ==
    \E c \in Customers : FetchCart(c) \/ FetchCatalog(c) \/ ScoreAndRespond(c)

SpecConcurrent == InitConcurrent /\ [][NextConcurrent]_vars

(***************************************************************************)
(* Properties.                                                             *)
(***************************************************************************)
(* The cart of the one customer the API serves: CartAgent over the cart    *)
(* table.  Every request has a session of its own; it gives way at the     *)
(* await of its SELECT and writes when it commits.                         *)
(***************************************************************************)
CartProductIds == {1, 2}

Quantities == (0 - 1)..MaxQuantity

\* the requests main.py passes to CartAgent.process
CartRequests ==
    {[action_type |-> a, product_id |-> p, quantity |-> q] :
        a \in {"add_to_cart", "update_quantity"}, p \in CartProductIds,
        q \in Quantities}
    \cup {[action_type |-> "remove_from_cart", product_id |-> p, quantity |-> 1] :
             p \in CartProductIds}

\* a coroutine that has not reached its SELECT yet
NewRequest(data) == [data |-> data, pc |-> "start", cart_item |-> None]

InitCart ==
    /\ customer_profile = {}
    /\ cart_products = <<>>
    /\ product_list = <<>>
    /\ limit = DefaultLimit
    /\ Fresh
    /\ pc = "call"
    /\ calls = NoCalls
    /\ db_carts = NoCalls
    /\ cart_table = {}
    /\ requests \in [1..MaxRequests -> {NewRequest(d) : d \in CartRequests}]

\* select(Cart).where(customer_id, product_id) ... scalar_one_or_none():
\* the row, None, or MultipleResultsFound
scalar_one_or_none(table, product_id) ==
    LET rows == {row \in table : row.product_id = product_id}
    IN  IF Cardinality(rows) > 1 THEN [raised |-> TRUE, item |-> None]
        ELSE IF rows = {} THEN [raised |-> FALSE, item |-> None]
        ELSE [raised |-> FALSE, item |-> CHOOSE row \in rows : TRUE]

\* the primary key of the next inserted row
NextRowId(table) ==
    IF table = {} THEN 1
    ELSE 1 + (CHOOSE n \in {row.id : row \in table} :
                 \A row \in table : row.id <= n)

\* UPDATE cart SET quantity = ... WHERE id = ...; StaleDataError when the
\* row is gone
UpdateRow(table, item, quantity) ==
    IF \E row \in table : row.id = item.id
    THEN [raised |-> FALSE,
          table |-> {IF row.id = item.id
                     THEN [row EXCEPT !.quantity = quantity] ELSE row :
                        row \in table}]
    ELSE [raised |-> TRUE, table |-> table]

\* DELETE FROM cart WHERE id = ...; a row already gone is a warning only
DeleteRow(table, item) ==
    [raised |-> FALSE, table |-> {row \in table : row.id # item.id}]

\* cart_agent.py lines 66-79, at the commit: cart_item is what the SELECT
\* of lines 58-64 returned
_add_to_cart(table, data, cart_item) ==
    IF cart_item # None
    THEN UpdateRow(table, cart_item, cart_item.quantity + data.quantity)
    ELSE [raised |-> FALSE,
          table |-> table \cup {[id |-> NextRowId(table),
                                 product_id |-> data.product_id,
                                 quantity |-> data.quantity]}]

\* cart_agent.py lines 100-107, at the commit
_update_quantity(table, data, cart_item) ==
    IF data.quantity <= 0 THEN DeleteRow(table, cart_item)
    ELSE UpdateRow(table, cart_item, data.quantity)

\* cart_agent.py lines 128-130, at the commit
_remove_from_cart(table, data, cart_item) == DeleteRow(table, cart_item)

\* the SELECT of a request, up to its await; "Item not found in cart" for
\* update_quantity and remove_from_cart
Select(r) ==
    /\ requests[r].pc = "start"
    /\ LET found == scalar_one_or_none(cart_table, requests[r].data.product_id)
           missing == /\ requests[r].data.action_type # "add_to_cart"
                      /\ found.item = None
       IN  requests' = [requests EXCEPT
               ![r].cart_item = found.item,
               ![r].pc = IF found.raised \/ missing THEN "failed" ELSE "selected"]
    /\ UNCHANGED <<customer_profile, cart_products, product_list, limit,
                   categories, recommendations, raised, response, pc,
                   confidences, algorithm_weights, explained, updates,
                   calls, db_carts, avg_price, cart_table>>

\* the rest of the request: the change of the row and await db.commit()
Commit(r) ==
    /\ requests[r].pc = "selected"
    /\ LET data == requests[r].data
           item == requests[r].cart_item
           done == IF data.action_type = "add_to_cart"
                   THEN _add_to_cart(cart_table, data, item)
                   ELSE IF data.action_type = "update_quantity"
                        THEN _update_quantity(cart_table, data, item)
                        ELSE _remove_from_cart(cart_table, data, item)
       IN  /\ cart_table' = done.table
           /\ requests' = [requests EXCEPT
                  ![r].pc = IF done.raised THEN "failed" ELSE "done"]
    /\ UNCHANGED <<customer_profile, cart_products, product_list, limit,
                   categories, recommendations, raised, response, pc,
                   confidences, algorithm_weights, explained, updates,
                   calls, db_carts, avg_price>>

NextCart == \E r \in DOMAIN requests : Select(r) \/ Commit(r)

SpecCart == InitCart /\ [][NextCart]_vars

(***************************************************************************)
\* the catalog positions eligible for recommendation: not in the cart
Eligible == {k \in DOMAIN product_list :
                \A j \in DOMAIN cart_products : product_list[k].id # cart_products[j].id}

IsError(resp) == "error" \in DOMAIN resp

IsSuccess(resp) == "status" \in DOMAIN resp /\ resp.status = "success"

DuplicateCatalogIds ==
    \E k, l \in DOMAIN product_list : k # l /\ product_list[k].id = product_list[l].id

NegativePrice ==
    \/ \E k \in DOMAIN product_list : product_list[k].price < 0
    \/ \E j \in DOMAIN cart_products : cart_products[j].price < 0

NullDescription ==
    \/ \E k \in DOMAIN product_list : product_list[k].description = None
    \/ \E j \in DOMAIN cart_products : cart_products[j].description = None

\* C1: no returned recommendation has the product_id of a cart line.
C1_NoSelfRecommendation ==
    pc # "call" =>
        \A i \in DOMAIN recommendations : \A j \in DOMAIN cart_products :
            recommendations[i].product_id # cart_products[j].id

C1_Witness ==
    /\ pc = "returned"
    /\ recommendations # <<>>
    /\ \E k \in DOMAIN product_list : \E j \in DOMAIN cart_products :
           product_list[k].id = cart_products[j].id

\* C2: for every integer limit the returned list has at most limit entries,
\* and when at most limit candidates are eligible all of them are returned.
C2_LengthAtMostLimit ==
    pc = "returned" =>
        /\ Len(recommendations) <= limit
        /\ Cardinality(Eligible) <= limit =>
               {recommendations[i].product : i \in DOMAIN recommendations} = Eligible

\* C3: the returned list is in descending score order, and recommendations
\* of equal score are in the order of their products in the catalog.
C3_SortedDescendingStable ==
    pc # "call" =>
        \A i, j \in DOMAIN recommendations :
            i < j =>
                /\ RatLeq(recommendations[j].score, recommendations[i].score)
                /\ recommendations[i].score = recommendations[j].score =>
                       recommendations[i].product < recommendations[j].product

C3_Witness ==
    /\ pc = "returned"
    /\ cart_products # <<>>
    /\ ~DuplicateCatalogIds
    /\ Len(recommendations) < Cardinality(Eligible)
    /\ \E i, j \in DOMAIN recommendations :
           i < j /\ recommendations[i].score = recommendations[j].score

\* C4: with an empty cart or an empty catalog the call runs without any
\* exception, and whatever keys the profile has or lacks the call returns
\* the list it returns for every other profile.
C4_EmptyInputsAndProfile ==
    pc = "returned" =>
        /\ (cart_products = <<>> \/ product_list = <<>>) => ~raised
        /\ \A prof \in (SUBSET ProfileKeys) \ {customer_profile} :
               generate_recommendations(prof, cart_products, product_list,
                                        limit, categories)
                   = [raised |-> raised, value |-> recommendations]

C4_Witness ==
    /\ pc = "returned"
    /\ customer_profile = {}
    /\ cart_products = <<>>
    /\ Len(recommendations) > 1

\* C5: a request with limit < 1 is answered with an explicit error.
C5_LimitBelowOneIsError ==
    (pc = "responded" /\ limit < 1) => IsError(response)

\* C6: a catalog with two entries of the same id is answered with an
\* explicit error, and no returned list holds a product_id twice.
C6_DuplicateIdsAreError ==
    /\ (pc = "responded" /\ DuplicateCatalogIds) => IsError(response)
    /\ pc # "call" =>
           \A i, j \in DOMAIN recommendations :
               i # j => recommendations[i].product_id # recommendations[j].product_id

\* C7: a negative price in a cart line or a catalog entry is answered with
\* an explicit error instead of scores computed from it.
C7_NegativePriceIsError ==
    (pc = "responded" /\ NegativePrice) => IsError(response)

\* C8: with a non-empty cart whose average price is 0 the call does not
\* abort: every candidate is scored with price confidence 0.0, that is by
\* its category and description factors alone, and the ranking is returned.
C8_ZeroAveragePriceContinues ==
    ( /\ pc = "returned"
      /\ cart_products # <<>>
      /\ avg_cart_price(cart_products) = Zero
      /\ ~NullDescription /\ ~NegativePrice /\ ~DuplicateCatalogIds
      /\ limit >= 1 )
    => /\ ~raised
       /\ Len(recommendations) = Min(limit, Cardinality(Eligible))
       /\ \A i \in DOMAIN recommendations :
              recommendations[i].score =
                  RatAdd(RatMul(category_confidence(
                                    product_list[recommendations[i].product],
                                    cart_products), category_weight),
                         RatMul(desc_confidence(
                                    product_list[recommendations[i].product],
                                    cart_products), description_weight))

\* C9: a candidate whose description is NULL gets description confidence
\* 0.0 and the call is not aborted: the eligible candidates are returned.
C9_NullDescriptionContinues ==
    ( /\ pc = "returned"
      /\ cart_products # <<>>
      /\ RatLess(Zero, avg_cart_price(cart_products))
      /\ \A j \in DOMAIN cart_products : cart_products[j].description # None
      /\ \E k \in Eligible : product_list[k].description = None
      /\ ~NegativePrice /\ ~DuplicateCatalogIds
      /\ limit >= Cardinality(Eligible) )
    => /\ ~raised
       /\ {recommendations[i].product : i \in DOMAIN recommendations} = Eligible

\* C10: when the catalog is empty or every catalog product is in the cart,
\* the request is answered with status "success" and an empty list.
C10_EmptyResultIsSuccess ==
    (pc = "responded" /\ Eligible = {}) =>
        /\ IsSuccess(response)
        /\ ~IsError(response)
        /\ response.recommendations = <<>>

C10_Witness ==
    /\ pc = "responded"
    /\ product_list # <<>>
    /\ cart_products # <<>>
    /\ Eligible = {}
    /\ IsSuccess(response)

InUnitInterval(r) == RatLeq(Zero, r) /\ RatLeq(r, One)

\* the cart is non-empty and its average price is positive
PositiveAverage ==
    cart_products # <<>> /\ RatLess(Zero, avg_cart_price(cart_products))

\* C16: with non-negative prices and a positive cart average, each of the
\* three confidences of a scored candidate lies in [0,1], and its score is
\* 0.4*category + 0.3*price + 0.3*description and lies in [0,1].
C16_ScoreIsWeightedSumInUnitInterval ==
    (pc = "returned" /\ PositiveAverage /\ ~NegativePrice) =>
        /\ \A k \in DOMAIN confidences :
               /\ InUnitInterval(confidences[k].category)
               /\ InUnitInterval(confidences[k].price)
               /\ InUnitInterval(confidences[k].description)
        /\ \A i \in DOMAIN recommendations :
               LET c == confidences[recommendations[i].product]
               IN  /\ recommendations[i].score =
                          RatAdd(RatAdd(RatMul(Rat(4, 10), c.category),
                                        RatMul(Rat(3, 10), c.price)),
                                 RatMul(Rat(3, 10), c.description))
                   /\ InUnitInterval(recommendations[i].score)

C16_Witness ==
    /\ pc = "returned"
    /\ PositiveAverage /\ ~NegativePrice
    /\ \E i \in DOMAIN recommendations :
           LET c == confidences[recommendations[i].product]
           IN  /\ c.category = One
               /\ RatLess(Zero, c.price) /\ RatLess(c.price, One)
               /\ RatLess(Zero, c.description) /\ RatLess(c.description, One)
               /\ RatLess(recommendations[i].score, One)

FallbackText == <<"Recommended based on general popularity">>

\* C17: the explanation of a candidate scored against a cart is the
\* fallback text exactly when its category confidence is 0, its price
\* confidence is at most 0.4 and its description confidence is at most 0.3;
\* every other explanation starts with "This product ".
C17_FallbackExactlyWhenAllLow ==
    (pc = "returned" /\ cart_products # <<>>) =>
        \A i \in DOMAIN recommendations :
            LET c == confidences[recommendations[i].product]
                e == recommendations[i].explanation
            IN  /\ (e = FallbackText) <=>
                       /\ c.category = Zero
                       /\ RatLeq(c.price, Rat(4, 10))
                       /\ RatLeq(c.description, Rat(3, 10))
                /\ (e # FallbackText) => e[1] = "This product "

C17_Witness ==
    /\ pc = "returned"
    /\ Len(recommendations) = 2
    /\ recommendations[1].explanation[1] = "This product "
    /\ recommendations[2].explanation = FallbackText
    /\ confidences[recommendations[2].product].price = Rat(4, 10)

\* |candidate_price - avg_price| for the catalog entry at position k
AbsPriceDifference(k) ==
    RatAbs(RatSub(Rat(product_list[k].price, 1), avg_cart_price(cart_products)))

\* C18: for a positive cart average the price confidence of a candidate is
\* 1 / (1 + |price - avg| / avg); it is 1 when the price equals the average,
\* lies in (0,1], and is strictly smaller for a strictly larger difference.
C18_PriceProximity ==
    (pc = "returned" /\ PositiveAverage) =>
        \A k \in DOMAIN confidences :
            /\ confidences[k].price =
                   RatDiv(One, RatAdd(One, RatDiv(AbsPriceDifference(k),
                                                  avg_cart_price(cart_products))))
            /\ AbsPriceDifference(k) = Zero => confidences[k].price = One
            /\ RatLess(Zero, confidences[k].price)
            /\ RatLeq(confidences[k].price, One)
            /\ \A l \in DOMAIN confidences :
                   RatLess(AbsPriceDifference(l), AbsPriceDifference(k)) =>
                       RatLess(confidences[k].price, confidences[l].price)

C18_Witness ==
    /\ pc = "returned"
    /\ PositiveAverage
    /\ \E k, l \in DOMAIN confidences :
           /\ AbsPriceDifference(l) = Zero
           /\ confidences[l].price = One
           /\ RatLess(Zero, AbsPriceDifference(k))
           /\ RatLess(confidences[k].price, One)

\* the set of lower-cased tokens of a description
TokenSet(description) ==
    {Lower(description.words[i]) : i \in DOMAIN description.words}

\* |intersection| / max(|candidate_tokens|, |line_tokens|) over token sets
SetOverlap(d, e) ==
    IF TokenSet(d) \cap TokenSet(e) = {} THEN Zero
    ELSE Rat(Cardinality(TokenSet(d) \cap TokenSet(e)),
             Max(Cardinality(TokenSet(d)), Cardinality(TokenSet(e))))

\* C19: the description confidence is the maximum over the cart lines of
\* the overlap of the token sets, so it is 1.0 when a cart line's token set
\* equals the candidate's (repeated tokens and letter case do not count).
C19_DescriptionOverlapOfTokenSets ==
    (pc = "returned" /\ PositiveAverage) =>
        \A k \in DOMAIN confidences :
            /\ \A j \in DOMAIN cart_products :
                   RatLeq(SetOverlap(product_list[k].description,
                                     cart_products[j].description),
                          confidences[k].description)
            /\ \E j \in DOMAIN cart_products :
                   confidences[k].description =
                       SetOverlap(product_list[k].description,
                                  cart_products[j].description)
            /\ \A j \in DOMAIN cart_products :
                   ( /\ TokenSet(product_list[k].description) # {}
                     /\ TokenSet(product_list[k].description)
                            = TokenSet(cart_products[j].description) )
                   => confidences[k].description = One

EmptyDescription(d) == d # None /\ d.words = <<>>

\* the candidate at position k shares no token with any cart line
SharesNoToken(k) ==
    \A j \in DOMAIN cart_products :
        TokenSet(product_list[k].description)
            \cap TokenSet(cart_products[j].description) = {}

\* C20 as stated: no shared token, or an empty description of the candidate
\* or of a cart line, gives description confidence 0.0 and no division error.
C20_EmptyOrDisjointIsZero ==
    (pc = "returned" /\ PositiveAverage /\ ~NullDescription) =>
        /\ ~raised
        /\ \A k \in DOMAIN confidences :
               ( \/ SharesNoToken(k)
                 \/ EmptyDescription(product_list[k].description)
                 \/ \E j \in DOMAIN cart_products :
                        EmptyDescription(cart_products[j].description) )
               => confidences[k].description = Zero

\* C20 as amended: no division error whichever descriptions are empty, and
\* description confidence 0.0 when the candidate shares no token with any
\* cart line, as when its description or every cart line's is empty.
C20_DisjointIsZeroNoDivisionError ==
    (pc = "returned" /\ PositiveAverage /\ ~NullDescription) =>
        /\ ~raised
        /\ DOMAIN confidences = Eligible
        /\ \A k \in DOMAIN confidences :
               ( \/ SharesNoToken(k)
                 \/ EmptyDescription(product_list[k].description)
                 \/ \A j \in DOMAIN cart_products :
                        EmptyDescription(cart_products[j].description) )
               => confidences[k].description = Zero

C20_Witness ==
    /\ pc = "returned"
    /\ PositiveAverage
    /\ ~raised
    /\ \E k \in DOMAIN confidences :
           /\ EmptyDescription(product_list[k].description)
           /\ \E j \in DOMAIN cart_products :
                  EmptyDescription(cart_products[j].description)
           /\ \E j \in DOMAIN cart_products :
                  ~EmptyDescription(cart_products[j].description)
           /\ confidences[k].description = Zero

\* C11: for a product the scoring call returned, the explanation request
\* reports that recommendation's confidence_score and its explanation text.
C11_ExplainMatchesBatch ==
    (pc # "call" /\ explained # NoExplanation) =>
        \A i \in DOMAIN recommendations :
            recommendations[i].product_id = explained.product_id =>
                /\ IsSuccess(explained.result)
                /\ explained.result.explanation.confidence
                       = recommendations[i].confidence_score
                /\ explained.result.explanation.explanation
                       = recommendations[i].explanation

\* C12: whatever feedback was learnt, the strategy weights are 0.4, 0.3 and
\* 0.3 and sum to 1.0, and a scoring call made after the updates returns
\* what the scorer computes from the cart, the catalog and the limit alone.
C12_WeightsFixedUnderFeedback ==
    /\ algorithm_weights.collaborative = Rat(4, 10)
    /\ algorithm_weights.content_based = Rat(3, 10)
    /\ algorithm_weights.sequential = Rat(3, 10)
    /\ RatAdd(RatAdd(algorithm_weights.collaborative,
                     algorithm_weights.content_based),
              algorithm_weights.sequential) = One
    /\ pc = "returned" =>
           recommendations =
               generate_recommendations(customer_profile, cart_products,
                                        product_list, limit, categories).value

C12_Witness ==
    /\ updates = MaxUpdates
    /\ pc = "returned"
    /\ recommendations # <<>>
    /\ algorithm_weights = InitialWeights

ProductFields == {"id", "category", "price", "description"}

\* C13: no step of a scoring request, the tagging of the recommendations
\* included, changes the cart or a catalog entry.
C13_InputsUnchanged ==
    [][cart_products' = cart_products /\ product_list' = product_list]_vars

C13_Witness ==
    /\ pc = "responded"
    /\ cart_products # <<>>
    /\ recommendations # <<>>
    /\ \A i \in DOMAIN recommendations :
           /\ recommendations[i].algorithm = "hybrid"
           /\ DOMAIN product_list[recommendations[i].product] = ProductFields

\* the response of customer c's request run alone on its own snapshots
AloneResponse(c) ==
    AgentResponse(
        TagRecommendations(
            generate_recommendations(customer_profile, db_carts[c], product_list,
                                     limit, calls[c].categories).value,
            "hybrid"),
        "hybrid", db_carts[c])

\* C14: however the two customers' requests interleave, each response is
\* the response of that request run alone on its own cart and catalog.
C14_InterleavedCallsDoNotInterfere ==
    \A c \in DOMAIN calls :
        calls[c].pc = "responded" =>
            /\ calls[c].categories \in CategoryLists(db_carts[c], product_list)
            /\ calls[c].response = AloneResponse(c)

C14_Witness ==
    /\ DOMAIN calls = Customers
    /\ \A c \in Customers :
           /\ calls[c].pc = "responded"
           /\ calls[c].response.recommendations # <<>>
    /\ \E c \in Customers : calls[c].overlapped
    /\ db_carts[1] # db_carts[2]
    /\ calls[1].response # calls[2].response

\* C15: the call returns the same list whatever order the intermediate
\* set of categories is iterated in.
C15_RankingIndependentOfSetOrder ==
    pc = "returned" =>
        \A cats \in CategoryLists(cart_products, product_list) :
            generate_recommendations(customer_profile, cart_products,
                                     product_list, limit, cats).value
                = recommendations

\* C21: the average price the scoring uses is the sum of the cart lines'
\* prices divided by the number of lines, whatever the lines' quantities;
\* lines priced 100 and 300 give 200.
C21_AverageIsUnweightedMean ==
    (pc = "returned" /\ cart_products # <<>> /\ Eligible # {}) =>
        /\ avg_price = Rat(SumPrices(cart_products), Len(cart_products))
        /\ ( /\ Len(cart_products) = 2
             /\ {cart_products[j].price : j \in DOMAIN cart_products} = {100, 300} )
           => avg_price = Rat(200, 1)

C21_Witness ==
    /\ pc = "returned"
    /\ Len(cart_products) = 2
    /\ cart_products[1].price = 100 /\ cart_products[1].quantity = 2
    /\ cart_products[2].price = 300 /\ cart_products[2].quantity = 1
    /\ avg_price = Rat(200, 1)

\* the distinct categories of a catalog, in first-seen order
RECURSIVE FirstSeen(_)
FirstSeen(plist) ==
    IF plist = <<>> THEN <<>>
    ELSE LET front == FirstSeen(SubSeq(plist, 1, Len(plist) - 1))
             c == plist[Len(plist)].category
         IN  IF \E i \in DOMAIN front : front[i] = c THEN front
             ELSE Append(front, c)

\* 0.6 * (1 - i/n) + 0.4 * (1 - idx/total) for the catalog entry at
\* position k of an empty-cart call, i being the 0-based position of its
\* category in the list cats of n categories
EmptyCartScore(k, cats) ==
    RatAdd(RatMul(Rat(6, 10),
                  RatSub(One, Rat(IndexOf(cats, product_list[k].category) - 1,
                                  Len(cats)))),
           RatMul(Rat(4, 10), RatSub(One, Rat(k - 1, Len(product_list)))))

\* C23: with an empty cart the diversity confidence of a candidate is
\* 1 - i/n for the 0-based position i of its category among the n distinct
\* categories in the catalog's first-seen order (stated on the score, which
\* adds 0.4 * position confidence to 0.6 * diversity confidence).
C23_DiversityByFirstSeenOrder ==
    (pc = "returned" /\ cart_products = <<>>) =>
        \A i \in DOMAIN recommendations :
            recommendations[i].score =
                EmptyCartScore(recommendations[i].product, FirstSeen(product_list))

\* k ranks before l in a descending stable sort by score
RanksBefore(k, l, cats) ==
    \/ RatLess(EmptyCartScore(l, cats), EmptyCartScore(k, cats))
    \/ EmptyCartScore(l, cats) = EmptyCartScore(k, cats) /\ k < l

\* C24: with an empty cart every returned candidate has the score
\* 0.6 * diversity + 0.4 * (1 - idx/total), and the result is the candidates
\* in descending stable order of that score, cut by the same slice as in
\* the non-empty-cart branch.
C24_EmptyCartScoreSortedTruncated ==
    (pc = "returned" /\ cart_products = <<>>) =>
        /\ \A i \in DOMAIN recommendations :
               recommendations[i].score =
                   EmptyCartScore(recommendations[i].product, categories)
        /\ \A i, j \in DOMAIN recommendations :
               i < j => RanksBefore(recommendations[i].product,
                                    recommendations[j].product, categories)
        /\ Len(recommendations) = Len(Slice(product_list, limit))
        /\ \A k \in DOMAIN product_list :
               (\A i \in DOMAIN recommendations : recommendations[i].product # k)
               => \A i \in DOMAIN recommendations :
                      RanksBefore(recommendations[i].product, k, categories)

C24_Witness ==
    /\ pc = "returned"
    /\ cart_products = <<>>
    /\ Len(product_list) = 3
    /\ Len(recommendations) = 2
    /\ recommendations[1].product = 2
    /\ RatLess(recommendations[2].score, recommendations[1].score)

ReturnedPositions == {recommendations[i].product : i \in DOMAIN recommendations}

\* the 1-based position of a category in the catalog's first-seen order
FirstSeenRank(category) == IndexOf(FirstSeen(product_list), category)

\* C25: scenario B returns exactly 2 items; an item of an earlier-seen
\* category that is returned ranks above every returned item of a
\* later-seen category, and no item of an earlier-seen category is left
\* out while an item of a later-seen category is returned.
C25_ScenarioBFirstSeenCategoriesFirst ==
    ( /\ pc = "returned"
      /\ cart_products = <<>>
      /\ {product_list[k] : k \in DOMAIN product_list} = ScenarioBProducts
      /\ limit = 2 ) =>
        /\ Len(recommendations) = 2
        /\ \A i, j \in DOMAIN recommendations :
               FirstSeenRank(product_list[recommendations[i].product].category)
                   < FirstSeenRank(product_list[recommendations[j].product].category)
               => i < j
        /\ \A k \in DOMAIN product_list, i \in DOMAIN recommendations :
               FirstSeenRank(product_list[k].category)
                   < FirstSeenRank(product_list[recommendations[i].product].category)
               => k \in ReturnedPositions

\* C26: scenario A returns exactly [id 2, id 3], and the category, price and
\* description confidences of id 2 are all greater than 0.
C26_ScenarioARanking ==
    ( /\ pc = "returned"
      /\ cart_products = ScenarioACart
      /\ product_list = ScenarioACatalog
      /\ limit = DefaultLimit ) =>
        /\ [i \in DOMAIN recommendations |-> recommendations[i].product_id] = <<2, 3>>
        /\ 1 \in DOMAIN confidences
        /\ RatLess(Zero, confidences[1].category)
        /\ RatLess(Zero, confidences[1].price)
        /\ RatLess(Zero, confidences[1].description)

C26_Witness ==
    /\ pc = "returned"
    /\ cart_products = ScenarioACart
    /\ product_list = ScenarioACatalog
    /\ limit = DefaultLimit
    /\ Len(recommendations) = 2
    /\ recommendations[1].product_id = 2
    /\ recommendations[1].score = Rat(48, 55)

\* a non-negative rational with two decimals: hundredths, rounded half up
TwoDecimals(r) ==
    LET h == (200 * r[1] + r[2]) \div (2 * r[2])
    IN  ToString(h \div 100) \o "." \o (IF h % 100 < 10 THEN "0" ELSE "")
        \o ToString(h % 100)

\* the clauses C22 expects for the candidate at catalog position k
ExpectedCategoryClause(k) ==
    IF RatLess(Zero, confidences[k].category)
    THEN <<"matches your preferred category (", product_list[k].category, ")">>
    ELSE <<>>

ExpectedPriceClause(k) ==
    IF RatLess(Rat(7, 10), confidences[k].price)
    THEN <<"is in a similar price range ($", TwoDecimals(avg_price), ")">>
    ELSE IF RatLess(Rat(4, 10), confidences[k].price)
         THEN <<"is within an acceptable price range">>
         ELSE <<>>

ExpectedDescriptionClause(k) ==
    IF RatLess(Rat(3, 10), confidences[k].description)
    THEN <<"has similar features to items in your cart">>
    ELSE <<>>

\* two clauses joined with ", " when neither is empty
CommaJoined(a, b) ==
    IF a = <<>> THEN b ELSE IF b = <<>> THEN a ELSE a \o <<", ">> \o b

\* C22: a non-fallback explanation is "This product " followed by the
\* category clause (iff category confidence > 0), the price clause (similar
\* range with the cart average to 2 decimals iff price confidence > 0.7,
\* acceptable range iff 0.4 < price confidence <= 0.7) and the description
\* clause (iff description confidence > 0.3), in this order, joined by ", ".
C22_ExplanationClauses ==
    (pc = "returned" /\ cart_products # <<>>) =>
        \A i \in DOMAIN recommendations :
            LET k == recommendations[i].product
            IN  recommendations[i].explanation # FallbackText =>
                    recommendations[i].explanation =
                        <<"This product ">>
                        \o CommaJoined(ExpectedCategoryClause(k),
                                       CommaJoined(ExpectedPriceClause(k),
                                                   ExpectedDescriptionClause(k)))

C22_Witness ==
    /\ pc = "returned"
    /\ cart_products # <<>>
    /\ Len(recommendations) = 2
    /\ recommendations[1].explanation =
           <<"This product ", "matches your preferred category (", "Electronics", ")",
             ", ", "is in a similar price range ($", "2.50", ")",
             ", ", "has similar features to items in your cart">>
    /\ recommendations[2].explanation =
           <<"This product ", "is within an acceptable price range">>

\* C29: when scoring fails the call returns the empty list, and the agent
\* answers exactly as it answers an empty result: status "success" with no
\* recommendations.
C29_ScoringFailureLooksEmpty ==
    /\ (pc # "call" /\ raised) => recommendations = <<>>
    /\ (pc = "responded" /\ raised) =>
           /\ IsSuccess(response)
           /\ response = AgentResponse(<<>>, "hybrid", cart_products)

C29_Witness ==
    /\ pc = "responded"
    /\ raised
    /\ \E k \in Eligible : product_list[k].description # None
    /\ IsSuccess(response)
    /\ response.recommendations = <<>>

\* candidate a's three confidences are at least b's, one of them greater
Dominates(a, b) ==
    /\ RatLeq(confidences[b].category, confidences[a].category)
    /\ RatLeq(confidences[b].price, confidences[a].price)
    /\ RatLeq(confidences[b].description, confidences[a].description)
    /\ confidences[a] # confidences[b]

Finished(r) == requests[r].pc \in {"done", "failed"}

\* C27: every row of the cart table has quantity >= 1.
C27_QuantityAtLeastOne ==
    \A row \in cart_table : row.quantity >= 1

RECURSIVE SumRequested(_)
SumRequested(n) ==
    IF n = 0 THEN 0 ELSE requests[n].data.quantity + SumRequested(n - 1)

\* C28: when all requests are add_to_cart requests for one product with
\* positive quantities and all have finished, the table has exactly one row
\* of that product, with the sum of the requested quantities.
C28_ConcurrentAddsSumUp ==
    \A p \in CartProductIds :
        ( /\ requests # <<>>
          /\ \A r \in DOMAIN requests :
                 /\ requests[r].data.action_type = "add_to_cart"
                 /\ requests[r].data.product_id = p
                 /\ requests[r].data.quantity >= 1
                 /\ Finished(r) )
        => \E row \in cart_table :
               /\ row.product_id = p
               /\ row.quantity = SumRequested(Len(requests))
               /\ \A other \in cart_table : other.product_id = p => other = row

====
